---- MODULE Spec2Model ----
(***************************************************************************)
(* Model of src/github_evaluation.py: the batch evaluation of student team *)
(* repositories (evaluate_teams / evaluate_team), the benchmark harness    *)
(* (run_all_benchmarks / run_benchmark with its two regular expressions),  *)
(* the staff filter and the issue-tracker query.                           *)
(*                                                                         *)
(* Text is modelled as a sequence of characters (one-character strings);   *)
(* the escape character \x1b is the single sequence element ESC.           *)
(***************************************************************************)
EXTENDS Integers, Sequences, FiniteSets, TLC

VARIABLES
    url,                \* os.getenv("SPREADSHEET_URL") (None when unset)
    tempdir,            \* os.getenv("TEMPDIR") (None when unset)
    creds,              \* JIRA_EMAIL and JIRA_API_TOKEN are both in os.environ
    world,              \* what the outside can answer in this run: benchmark runs, tracker answers, commit histories
    sheet,              \* the rows of the roster spreadsheet
    teams,              \* evaluate_teams: teams
    master_repo,        \* evaluate_teams: master_repo
    suite_ops,          \* the operations performed on the canonical suite directory, in order
    main_table,         \* evaluate_teams: main_table
    uno_table,          \* evaluate_teams: uno_table
    dog_table,          \* evaluate_teams: dog_table
    idx,                \* evaluate_teams: position of the loop over teams[:2]
    pc,                 \* the statement the process is at
    exc,                \* the exception that ended the process (None while running)
    cwd,                \* the process-wide current working directory
    fs,                 \* the directories below temp_dir: name -> tree, or NoDir
    contributors,       \* evaluate_team: contributors
    errors,             \* evaluate_team: errors
    benchmark_results,  \* evaluate_team: benchmark_results (run_all_benchmarks: out)
    jira_eval_results,  \* evaluate_team: jira_eval_results
    game,               \* run_all_benchmarks: position of the loop over the games
    log,                \* the external operations performed for the current team, in order
    reports,            \* the report files written by __main__
    proc,               \* run_benchmark: result (the completed subprocess)
    parsed,             \* run_benchmark: what it returned or raised for proc
    tally_in,           \* remove_lecturer_contributions: the dict as it was passed in
    tally,              \* remove_lecturer_contributions: contributors (the dict)
    applied,            \* number of times remove_lecturer_contributions was applied to tally
    team_dir,           \* run_all_benchmarks: the tree of repo_dir when it is called
    suite_dir           \* run_all_benchmarks: the tree of benchmark_repo_dir when it is called

vars == <<url, tempdir, creds, world, sheet, teams, master_repo, suite_ops, main_table,
          uno_table, dog_table, idx, pc, exc, cwd, fs, contributors, errors,
          benchmark_results, jira_eval_results, game, log, reports,
          proc, parsed, tally_in, tally, applied, team_dir, suite_dir>>

None == "None"
NaN == "NaN"

-----------------------------------------------------------------------------
(* Text *)

ESC == "\\x1b"
NL == "\n"

Digit == {"0", "1", "2", "3", "4", "5", "6", "7", "8", "9"}
\* the characters of \s that a TLA+ string can name
Whitespace == {" ", "\t", "\n", "\r", "\f"}

RECURSIVE Str(_)
Str(s) == IF s = <<>> THEN "" ELSE Head(s) \o Str(Tail(s))

At(s, i) == IF i >= 1 /\ i <= Len(s) THEN s[i] ELSE ""

DigitValue(c) == CHOOSE n \in 0..9 : ToString(n) = c

RECURSIVE ToInt(_)
ToInt(s) == IF s = <<>> THEN 0 ELSE 10 * ToInt(SubSeq(s, 1, Len(s) - 1)) + DigitValue(s[Len(s)])

-----------------------------------------------------------------------------
(* Regular-expression steps: each takes the position p reached so far       *)
(* (0: the match has failed) and gives the position after the step, or 0.   *)

Lit(s, p, w) ==
    IF p # 0 /\ \A k \in 1..Len(w) : At(s, p + k - 1) = w[k] THEN p + Len(w) ELSE 0

Space(s, p) == IF p # 0 /\ At(s, p) \in Whitespace THEN p + 1 ELSE 0

OneDigit(s, p) == IF p # 0 /\ At(s, p) \in Digit THEN p + 1 ELSE 0

OptDigit(s, p) == IF p # 0 /\ At(s, p) \in Digit THEN p + 1 ELSE p

RECURSIVE DigitRun(_, _)
DigitRun(s, p) == IF At(s, p) \in Digit THEN DigitRun(s, p + 1) ELSE p

Digits(s, p) == IF p # 0 /\ At(s, p) \in Digit THEN DigitRun(s, p) ELSE 0

Opt(s, p, c) == IF p # 0 /\ At(s, p) = c THEN p + 1 ELSE p

\* "$" without re.MULTILINE: the end of the string, or just before a newline that ends it
EndAnchor(s, p) ==
    IF p # 0 /\ (p = Len(s) + 1 \/ (p = Len(s) /\ s[p] = NL)) THEN p ELSE 0

-----------------------------------------------------------------------------
(* The two patterns of the benchmark output *)

W_Tests == <<"T", "e", "s", "t", "s", ":">>
W_valid == <<"v", "a", "l", "i", "d">>
W_Mark == <<"M", "a", "r", "k", ":">>
W_points == <<"p", "o", "i", "n", "t", "s">>
W_point == <<"p", "o", "i", "n", "t">>
W_Test == <<"T", "e", "s", "t">>
W_Reset == <<ESC, "[", "0", "m">>
W_92m == <<"9", "2", "m">>
W_91m == <<"9", "1", "m">>

\* BENCHMARK_OUTPUT_REGEX, up to the end of its group: the position after "points", or 0
OutputGroupEnd(s, i) ==
    LET p1 == Digits(s, Space(s, Lit(s, i, W_Tests)))
        p2 == Lit(s, Space(s, Digits(s, Lit(s, p1, <<"/">>))), W_valid)
        p3 == Space(s, Space(s, Lit(s, Lit(s, p2, <<NL>>), W_Mark)))
        p4 == Digits(s, Lit(s, Digits(s, p3), <<"/">>))
    IN  Lit(s, Space(s, p4), W_points)

\* BENCHMARK_OUTPUT_REGEX matched at position i: the position after the match, or 0
OutputMatchAt(s, i) ==
    EndAnchor(s, Lit(s, OutputGroupEnd(s, i), <<NL, NL>>))

\* BENCHMARK_OUTPUT_REGEX.search(s): [found, group1]
BENCHMARK_OUTPUT_REGEX(s) ==
    LET starts == {i \in 1..Len(s) : OutputMatchAt(s, i) # 0}
    IN  IF starts = {}
        THEN [found |-> FALSE, group1 |-> <<>>]
        ELSE LET i == CHOOSE j \in starts : \A k \in starts : j <= k
             IN  [found |-> TRUE, group1 |-> SubSeq(s, i, OutputGroupEnd(s, i) - 1)]

\* the part of BENCHMARK_TEST_REGEX before the name: (92m|91m)Test\s(\d\d\d)\x1b\[0m:\s
TestHeadEnd(s, i) ==
    LET c == IF Lit(s, i, W_92m) # 0 THEN Lit(s, i, W_92m) ELSE Lit(s, i, W_91m)
        n == OneDigit(s, OneDigit(s, OneDigit(s, Space(s, Lit(s, c, W_Test)))))
    IN  Space(s, Lit(s, Lit(s, n, W_Reset), <<":">>))

\* the part of BENCHMARK_TEST_REGEX after the name: \s\[\d\d?\spoints?\]
TestTailEnd(s, q) ==
    LET d == OptDigit(s, OneDigit(s, Lit(s, Space(s, q), <<"[">>)))
    IN  Lit(s, Opt(s, Lit(s, Space(s, d), W_point), "s"), <<"]">>)

\* ([^\n]+?): the shortest non-empty run without a newline after which the tail matches
NameLens(s, j) ==
    {k \in 1..(Len(s) - j + 1) :
        /\ \A m \in j..(j + k - 1) : s[m] # NL
        /\ TestTailEnd(s, j + k) # 0}

\* BENCHMARK_TEST_REGEX matched at position i: [end, groups], end = 0 when it does not match
TestMatchAt(s, i) ==
    LET j == TestHeadEnd(s, i)
    IN  IF j = 0 \/ NameLens(s, j) = {}
        THEN [end |-> 0, groups |-> <<>>]
        ELSE LET k == CHOOSE n \in NameLens(s, j) : \A m \in NameLens(s, j) : n <= m
             IN  [end |-> TestTailEnd(s, j + k),
                  groups |-> <<SubSeq(s, i, i + 2), SubSeq(s, i + 8, i + 10), SubSeq(s, j, j + k - 1)>>]

\* BENCHMARK_TEST_REGEX.findall(s) from position i on: the groups of the matches, left to right
RECURSIVE FindAllFrom(_, _)
FindAllFrom(s, i) ==
    LET starts == {j \in i..Len(s) : TestMatchAt(s, j).end # 0}
    IN  IF starts = {} THEN <<>>
        ELSE LET first == CHOOSE j \in starts : \A k \in starts : j <= k
                 m == TestMatchAt(s, first)
             IN  <<m.groups>> \o FindAllFrom(s, m.end)

BENCHMARK_TEST_REGEX(s) == FindAllFrom(s, 1)

\* the two color codes taken for each other
TestResultSwapped(test) ==
    [test_nr |-> ToInt(test[2]), test_name |-> Str(test[3]), passed |-> test[1] = W_91m]

TestResult(test) ==
    [test_nr |-> ToInt(test[2]), test_name |-> Str(test[3]), passed |-> test[1] = W_92m]

BenchmarkResult(overall, tests) == [overall_results |-> overall, test_results |-> tests]

MsgTimeout == "Timeout"
MsgCrashed == "Benchmark evaluation failed with message: "
MsgMalformed == "No proper Benchmark output (missing 'Tests/Mark' section)"

\* the output searched for the trailing block before the exit code is looked at
run_benchmark_output_first(r) ==
    IF r.timedOut THEN [raised |-> TRUE, message |-> MsgTimeout]
    ELSE LET overall_score == BENCHMARK_OUTPUT_REGEX(r.stdout)
             test_scores == BENCHMARK_TEST_REGEX(r.stdout)
         IN  IF overall_score.found
             THEN [raised |-> FALSE,
                   value |-> BenchmarkResult(Str(overall_score.group1),
                                             [n \in 1..Len(test_scores) |-> TestResult(test_scores[n])])]
             ELSE IF r.returncode # 0 THEN [raised |-> TRUE, message |-> MsgCrashed \o r.stderr]
             ELSE [raised |-> TRUE, message |-> MsgMalformed]

\* run_benchmark after the subprocess has ended with result r:
\* [raised, message] for a RunBenchmarkError, [raised, value] for a returned BenchmarkResult
run_benchmark(r) ==
    IF r.timedOut THEN [raised |-> TRUE, message |-> MsgTimeout]
    ELSE IF r.returncode # 0 THEN [raised |-> TRUE, message |-> MsgCrashed \o r.stderr]
    ELSE LET overall_score == BENCHMARK_OUTPUT_REGEX(r.stdout)
             test_scores == BENCHMARK_TEST_REGEX(r.stdout)
         IN  IF ~overall_score.found THEN [raised |-> TRUE, message |-> MsgMalformed]
             ELSE [raised |-> FALSE,
                   value |-> BenchmarkResult(Str(overall_score.group1),
                                             [n \in 1..Len(test_scores) |-> TestResult(test_scores[n])])]

-----------------------------------------------------------------------------
(* What a benchmark script can print: lines and a trailing block *)

T_DealCards == <<"D", "e", "a", "l", " ", "c", "a", "r", "d", "s">>
T_PlayCard == <<"P", "l", "a", "y", " ", "c", "a", "r", "d", " ", "[", "w", "i", "l", "d", "]">>
T_Running == <<"R", "u", "n", "n", "i", "n", "g", " ", "b", "e", "n", "c", "h", "m", "a", "r", "k">>
T_Score == <<"T", "e", "s", "t", "s", ":", " ", "7", "/", "1", "0", " ", "v", "a", "l", "i", "d", "\n",
             "M", "a", "r", "k", ":", " ", " ", "1", "4", "/", "2", "0", " ", "p", "o", "i", "n", "t", "s">>

NameText(name) == IF name = "Deal cards" THEN T_DealCards ELSE T_PlayCard

\* the ordinal as the benchmark prints it: three digits
Ordinal3(n) == <<ToString(n \div 100), ToString((n \div 10) % 10), ToString(n % 10)>>

PointsText(n) ==
    (IF n >= 100 THEN <<ToString(n \div 100)>> ELSE <<>>)
        \o (IF n >= 10 THEN <<ToString((n \div 10) % 10)>> ELSE <<>>)
        \o <<ToString(n % 10), " ">>
        \o (IF n = 1 THEN W_point ELSE W_points)

ColorText(passed) == IF passed THEN W_92m ELSE W_91m

\* One printed line. form "reset_after_ordinal" is  ESC[92mTest 001 ESC[0m: name [2 points],
\* form "reset_at_end" is  ESC[92mTest 001: name [2 points] ESC[0m, form "plain" is other text.
LineText(l) ==
    IF l.form = "plain" THEN T_Running \o <<NL>>
    ELSE LET head == <<ESC, "[">> \o ColorText(l.passed) \o W_Test \o <<" ">> \o Ordinal3(l.ordinal)
             rest == <<":", " ">> \o NameText(l.name) \o <<" ", "[">> \o PointsText(l.points) \o <<"]">>
         IN  IF l.form = "reset_after_ordinal"
             THEN head \o W_Reset \o rest \o <<NL>>
             ELSE head \o rest \o W_Reset \o <<NL>>

SampleLine == [form |-> "reset_at_end", passed |-> TRUE, ordinal |-> 1, name |-> "Deal cards", points |-> 2]

Lines ==
    { [form |-> f, passed |-> b, ordinal |-> 1, name |-> "Deal cards", points |-> 2] :
        f \in {"reset_after_ordinal", "reset_at_end"}, b \in BOOLEAN }
    \cup { [form |-> "reset_after_ordinal", passed |-> TRUE, ordinal |-> 12, name |-> "Play card [wild]", points |-> 1],
           [form |-> "reset_after_ordinal", passed |-> FALSE, ordinal |-> 120, name |-> "Deal cards", points |-> 10],
           [form |-> "reset_after_ordinal", passed |-> TRUE, ordinal |-> 7, name |-> "Deal cards", points |-> 100],
           [form |-> "plain", passed |-> FALSE, ordinal |-> 0, name |-> "Deal cards", points |-> 0] }

Trailers == {"block", "block_and_newline", "no_blank_line", "missing"}

TrailerText(t) ==
    CASE t = "block" -> T_Score \o <<NL, NL>>
      [] t = "block_and_newline" -> T_Score \o <<NL, NL, NL>>
      [] t = "no_blank_line" -> T_Score \o <<NL>>
      [] t = "missing" -> <<>>

RECURSIVE Concat(_)
Concat(ss) == IF ss = <<>> THEN <<>> ELSE Head(ss) \o Concat(Tail(ss))

MaxLines == 2

RECURSIVE SeqsUpTo(_, _)
SeqsUpTo(S, n) ==
    IF n = 0 THEN {<<>>}
    ELSE SeqsUpTo(S, n - 1) \cup {Append(q, x) : q \in {r \in SeqsUpTo(S, n - 1) : Len(r) = n - 1}, x \in S}

\* subprocess.run(...) of run_benchmark: what the child printed and how it ended
CompletedProcess(ls, t, rc, to) ==
    [timedOut |-> to, returncode |-> rc, stderr |-> IF rc = 0 THEN "" ELSE "Traceback",
     stdout |-> Concat([n \in 1..Len(ls) |-> LineText(ls[n])]) \o TrailerText(t),
     lines |-> ls, trailer |-> t]

-----------------------------------------------------------------------------
(* The roster *)

TeamLimit == 2

\* the longest roster drawn: one row more than the loop of evaluate_teams takes
MaxRows == 3

RepoUrl == "https://github.com/team/repo"
BoardUrl == "https://team.atlassian.net"

Rows ==
    { [nr |-> "1", name |-> "Alpha", repository |-> r, jira_board |-> j] :
        r \in {NaN, RepoUrl}, j \in {NaN, BoardUrl} }
    \cup { [nr |-> NaN, name |-> NaN, repository |-> NaN, jira_board |-> NaN] }

\* the rows of the rosters with several rows: a blank row, a team with both URLs, a team with none
BatchRows == {r \in Rows : (r.repository = NaN) = (r.jira_board = NaN)}

Sheets == SeqsUpTo(Rows, 1) \cup SeqsUpTo(BatchRows, MaxRows)

\* uuid.uuid4(): the n-th token drawn, different from every other one
Uuid(n) == "uuid-" \o ToString(n)

OrNone(cell) == IF cell = NaN THEN None ELSE cell

\* read_team_spreadsheet: one Team per row whose 'Team Nr' is not blank, in the order of the rows
RECURSIVE read_team_spreadsheet(_)
read_team_spreadsheet(rows) ==
    IF rows = <<>> THEN <<>>
    ELSE LET before == read_team_spreadsheet(SubSeq(rows, 1, Len(rows) - 1))
             team_row == rows[Len(rows)]
         IN  IF team_row.nr = NaN THEN before
             ELSE Append(before, [id |-> Uuid(Len(before) + 1),
                                  nr |-> OrNone(team_row.nr),
                                  name |-> OrNone(team_row.name),
                                  repository |-> OrNone(team_row.repository),
                                  jira_board |-> OrNone(team_row.jira_board)])

\* teams[:2]
TeamsSlice(ts) == SubSeq(ts, 1, IF Len(ts) < TeamLimit THEN Len(ts) ELSE TeamLimit)

-----------------------------------------------------------------------------
(* Directories below temp_dir *)

StartDir == "."
MasterRepo == "master_repo"

FileNames == {"benchmark_uno.py", "extra.py"}
Absent == "absent"
Contents == {"canonical", "team"}

NoFiles == [f \in FileNames |-> Absent]
NoSubtree == [exists |-> FALSE, files |-> NoFiles]
Subtrees == {NoSubtree} \cup {[exists |-> TRUE, files |-> fl] : fl \in [FileNames -> Contents \cup {Absent}]}

NoDir == [exists |-> FALSE, cloned |-> FALSE, rewound |-> FALSE, benchmark |-> NoSubtree, config |-> Absent]
EmptyDir == [NoDir EXCEPT !.exists = TRUE]

\* the canonical suite as cloned: benchmark/, mypy.ini and .pylintrc
SuiteTree ==
    [exists |-> TRUE, cloned |-> TRUE, rewound |-> FALSE, config |-> "canonical",
     benchmark |-> [exists |-> TRUE, files |-> [f \in FileNames |-> IF f = "extra.py" THEN Absent ELSE "canonical"]]]

\* a team's repository as cloned, with whatever benchmark subtree the team committed
TeamTree(sub) == [exists |-> TRUE, cloned |-> TRUE, rewound |-> FALSE, config |-> "team", benchmark |-> sub]

ClonedSubtrees ==
    { NoSubtree,
      [exists |-> TRUE, files |-> [f \in FileNames |-> "team"]] }

\* shutil.rmtree of a subtree
rmtree(sub) == NoSubtree

\* shutil.copytree(src, dst): dst is created and every file of src is copied into it
copytree(src, dst) ==
    [exists |-> TRUE,
     files |-> [f \in FileNames |-> IF src.files[f] # Absent THEN src.files[f] ELSE dst.files[f]]]

\* the overlay without the removal of the benchmark subtree that is there
overlay_without_rmtree(repo, suite) ==
    [repo EXCEPT !.benchmark = copytree(suite.benchmark, repo.benchmark), !.config = suite.config]

\* the benchmark directory of the suite moved into repo_dir instead of copied
overlay_source_moved(suite) == [suite EXCEPT !.benchmark = NoSubtree]

\* run_all_benchmarks, lines 232-234: benchmark_repo_dir afterwards; copytree and copy
\* read their source and leave it as it is
overlay_source(suite) == suite

\* run_all_benchmarks, lines 230-234: the overlay of the canonical suite onto repo_dir
overlay(repo, suite) ==
    LET cleared == IF repo.benchmark.exists THEN rmtree(repo.benchmark) ELSE repo.benchmark
    IN  [repo EXCEPT !.benchmark = copytree(suite.benchmark, cleared), !.config = suite.config]

-----------------------------------------------------------------------------
(* Tallies: a dict is a sequence of [user, count] with distinct users, in insertion order *)

Has(d, user) == \E n \in 1..Len(d) : d[n].user = user

\* del d[user]
Del(d, user) ==
    LET keep(e) == e.user # user
    IN  SelectSeq(d, keep)

\* the second test made the alternative of the first (elif): one name removed per call
remove_one_lecturer(c) ==
    IF Has(c, "Oliver Staubli") THEN Del(c, "Oliver Staubli")
    ELSE IF Has(c, "samhab") THEN Del(c, "samhab") ELSE c

\* remove_lecturer_contributions
remove_lecturer_contributions(c) ==
    LET c1 == IF Has(c, "Oliver Staubli") THEN Del(c, "Oliver Staubli") ELSE c
    IN  IF Has(c1, "samhab") THEN Del(c1, "samhab") ELSE c1

\* ", ".join([f"{user} ({count})" for user, count in d.items()])
RECURSIVE Join(_)
Join(d) ==
    IF d = <<>> THEN ""
    ELSE LET item == d[1].user \o " (" \o ToString(d[1].count) \o ")"
         IN  IF Len(d) = 1 THEN item ELSE item \o ", " \o Join(Tail(d))

\* what "git log --pretty=short | git shortlog -n -s" can report for a clone
CommitHists ==
    { <<>>,
      <<[user |-> "alice", count |-> 5], [user |-> "samhab", count |-> 2]>> }

\* what the tracker can report: done issues by assignee
IssueTallies == { <<[user |-> "alice", count |-> 3]>> }

-----------------------------------------------------------------------------
(* The issue tracker *)

MsgNoCredentials == "Please provide env variables 'JIRA_EMAIL' and 'JIRA_API_TOKEN'"
MsgInvalidUrl == "Invalid JIRA board url"
MsgAuthFailed == "JIRA authentication failed: "
MsgQueryFailed == "Jira Query issue: "
JiraErrorText == "HTTP 401"

\* how the tracker can answer; without credentials os.environ[...] raises before any request
TrackerAnswers(hasCreds) ==
    IF hasCreds THEN {"InvalidURL", "JIRAError_auth", "JIRAError_search", "issues"} ELSE {"KeyError"}

\* the tracker's answers in a run whose tracker can give the answers in `can`
AnswersIn(hasCreds, can) == IF hasCreds THEN can ELSE {"KeyError"}

\* evaluate_jira_issues for answer a: [raised, message] for a JiraEvalError, else [raised, value]
evaluate_jira_issues(a, issues) ==
    CASE a = "KeyError" -> [raised |-> TRUE, message |-> MsgNoCredentials]
      [] a = "InvalidURL" -> [raised |-> TRUE, message |-> MsgInvalidUrl]
      [] a = "JIRAError_auth" -> [raised |-> TRUE, message |-> MsgAuthFailed \o JiraErrorText]
      [] a = "JIRAError_search" -> [raised |-> TRUE, message |-> MsgQueryFailed \o JiraErrorText]
      [] a = "issues" -> [raised |-> FALSE, value |-> issues]

\* the handler of JiraEvalError recording a fixed text
jira_summary_fixed(res) == IF res.raised THEN "Jira evaluation failed" ELSE Join(res.value)

\* evaluate_team, lines 277-281: the summary recorded for the tracker's answer
jira_summary(res) == IF res.raised THEN res.message ELSE Join(res.value)

-----------------------------------------------------------------------------
(* The benchmark runs *)

Games == <<"hangman", "battleship", "uno", "dog">>

RunKinds == {"timeout", "crashed", "malformed", "scored"}

PassLine == [form |-> "reset_after_ordinal", passed |-> TRUE, ordinal |-> 1, name |-> "Deal cards", points |-> 2]
FailLine == [form |-> "reset_after_ordinal", passed |-> FALSE, ordinal |-> 120, name |-> "Deal cards", points |-> 10]

\* one completed subprocess of each kind
Run(kind) ==
    CASE kind = "timeout" -> CompletedProcess(<<>>, "missing", 0, TRUE)
      [] kind = "crashed" -> CompletedProcess(<<PassLine>>, "block", 1, FALSE)
      [] kind = "malformed" -> CompletedProcess(<<PassLine>>, "no_blank_line", 0, FALSE)
      [] kind = "scored" -> CompletedProcess(<<PassLine, FailLine>>, "block", 0, FALSE)

\* run_all_benchmarks, lines 237-240: the outcome recorded for one game
game_outcome(res) ==
    IF res.raised THEN BenchmarkResult(res.message, <<>>) ELSE res.value

\* run_all_benchmarks, line 238 with its handler: the outcome recorded for a run of each kind
Outcome == [kind \in RunKinds |-> game_outcome(run_benchmark(Run(kind)))]

EmptyMap == [g \in {} |-> None]

Put(m, k, v) == [x \in DOMAIN m \cup {k} |-> IF x = k THEN v ELSE m[x]]

-----------------------------------------------------------------------------
(* The batch: __main__, evaluate_teams, evaluate_team *)

Unset == "unset"
MsgNoErrors == "no errors"
MsgNoRepository == "No repository url in spreadsheed"
MsgCloneFailed == "Error when cloning repo: "
CloneErrorText == "Command '['git', 'clone']' returned non-zero exit status 128."

DirNames == {MasterRepo} \cup {Uuid(n) : n \in 1..MaxRows}

envVars == <<url, tempdir, creds, world, sheet>>
tableVars == <<main_table, uno_table, dog_table>>
teamVars == <<contributors, errors, benchmark_results, jira_eval_results, game>>
unitVars == <<proc, parsed, tally_in, tally, applied, team_dir, suite_dir>>

NoProc == [timedOut |-> FALSE, returncode |-> 0, stderr |-> "", stdout |-> <<>>, lines |-> <<>>, trailer |-> "missing"]
NotRun == [done |-> FALSE]

\* the directory named after the roster number instead of the token
repo_dir_of_nr(team) == "uuid-" \o team.nr

\* evaluate_team, line 260: os.path.join(temp_dir, team.id), as the name below temp_dir
repo_dir_of(team) == team.id

\* the team evaluate_team is working on, and its repo_dir = os.path.join(temp_dir, team.id)
Team == TeamsSlice(teams)[idx]
repo_dir == repo_dir_of(Team)

\* an exception nobody catches ends the process
Raise(e) == pc' = "aborted" /\ exc' = e

\* clone_repo: the directory afterwards. makedirs when it is missing, then git clone,
\* which fills an empty directory with the tree t or fails and leaves it as it is
clone_repo(d, ok, t) ==
    LET made == IF ~d.exists THEN EmptyDir ELSE d
    IN  IF ok THEN t ELSE made

\* clone_repo, lines 66-73: the working directory afterwards (restored on both paths)
clone_cwd(wd, dir, ok) == wd

\* git clone refuses a directory that is not empty
CloneAnswers(d) == IF d.exists /\ d.cloned THEN {FALSE} ELSE {TRUE, FALSE}

\* A world says what the outside can answer during one run. The full world can give
\* every answer at every call; a uniform world gives the same answer at every call.
FullWorld == [runs |-> RunKinds, answers |-> TrackerAnswers(TRUE), hists |-> CommitHists]

UniformWorlds ==
    { [runs |-> {"scored"}, answers |-> {"issues"}, hists |-> {<<[user |-> "alice", count |-> 5], [user |-> "samhab", count |-> 2]>>}],
      [runs |-> {"timeout"}, answers |-> {"InvalidURL"}, hists |-> {<<>>}],
      [runs |-> {"crashed"}, answers |-> {"JIRAError_auth"}, hists |-> {<<>>}],
      [runs |-> {"malformed"}, answers |-> {"JIRAError_search"}, hists |-> {<<>>}] }

Worlds == {FullWorld} \cup UniformWorlds

Init ==
    /\ url \in {None, "https://docs.google.com/spreadsheets/d/1/edit?gid=0"}
    /\ tempdir \in {None, "/tmp/eval"}
    /\ creds \in BOOLEAN
    /\ sheet \in Sheets
    /\ world \in Worlds
    /\ Len(sheet) <= 1 \/ world \in UniformWorlds
    /\ teams = <<>>
    /\ master_repo = None
    /\ suite_ops = <<>>
    /\ main_table = <<>>
    /\ uno_table = <<>>
    /\ dog_table = <<>>
    /\ idx = 1
    /\ pc = "main"
    /\ exc = None
    /\ cwd = StartDir
    /\ fs = [d \in DirNames |-> NoDir]
    /\ contributors = Unset
    /\ errors = Unset
    /\ benchmark_results = EmptyMap
    /\ jira_eval_results = Unset
    /\ game = 1
    /\ log = <<>>
    /\ reports = {}
    /\ proc = NoProc
    /\ parsed = NotRun
    /\ tally_in = <<>>
    /\ tally = <<>>
    /\ applied = 0
    /\ team_dir = NoDir
    /\ suite_dir = NoDir

\* the test for a missing TEMPDIR left out
main_checks_url_only(u, t) == IF u = None THEN "ValueError" ELSE None

\* __main__, lines 337-342: the exception raised for the two environment values, or None
main_checks(u, t) == IF u = None \/ t = None THEN "ValueError" ELSE None

\* __main__, lines 337-343
Main ==
    /\ pc = "main"
    /\ IF main_checks(url, tempdir) # None
       THEN Raise(main_checks(url, tempdir))
       ELSE pc' = "read" /\ exc' = exc
    /\ UNCHANGED <<envVars, tableVars, teamVars, unitVars, teams, master_repo, suite_ops, idx, cwd, fs, log, reports>>

\* evaluate_teams, line 291
ReadTeamSpreadsheet ==
    /\ pc = "read"
    /\ teams' = read_team_spreadsheet(sheet)
    /\ pc' = "prepare"
    /\ UNCHANGED <<envVars, tableVars, teamVars, unitVars, master_repo, suite_ops, idx, exc, cwd, fs, log, reports>>

\* evaluate_teams, line 292: prepare_benchmark_evaluation
PrepareBenchmarkEvaluation ==
    /\ pc = "prepare"
    /\ \E cloned \in CloneAnswers(fs[MasterRepo]), installed \in BOOLEAN :
        /\ fs' = [fs EXCEPT ![MasterRepo] = clone_repo(@, cloned, SuiteTree)]
        /\ cwd' = clone_cwd(cwd, MasterRepo, cloned)
        /\ suite_ops' = suite_ops \o (IF cloned THEN <<"clone_repo">> ELSE <<>>)
                                  \o (IF cloned /\ installed THEN <<"pip_install">> ELSE <<>>)
        /\ IF ~cloned THEN Raise("CloneRepoError") /\ master_repo' = master_repo
           ELSE IF ~installed THEN Raise("CalledProcessError") /\ master_repo' = master_repo
           ELSE pc' = "loop" /\ exc' = exc /\ master_repo' = MasterRepo
    /\ UNCHANGED <<envVars, tableVars, teamVars, unitVars, teams, idx, log, reports>>

\* the branch on the repository left out
begin_team_clones(team) == [contributors |-> Unset, errors |-> MsgNoErrors, pc |-> "clone"]

\* the branch for a missing repository leaving the message as it was initialised
begin_team_keeps_message(team) ==
    IF team.repository = None
    THEN [contributors |-> None, errors |-> MsgNoErrors, pc |-> "jira"]
    ELSE [contributors |-> Unset, errors |-> MsgNoErrors, pc |-> "clone"]

\* evaluate_team, lines 253-258: the locals and the branch on the repository
begin_team(team) ==
    IF team.repository = None
    THEN [contributors |-> None, errors |-> MsgNoRepository, pc |-> "jira"]
    ELSE [contributors |-> Unset, errors |-> MsgNoErrors, pc |-> "clone"]

\* evaluate_teams, line 296, and evaluate_team, lines 253-258
EvaluateTeamBegin ==
    /\ pc = "loop"
    /\ idx <= Len(TeamsSlice(teams))
    /\ benchmark_results' = EmptyMap
    /\ jira_eval_results' = Unset
    /\ game' = 1
    /\ log' = <<>>
    /\ contributors' = begin_team(Team).contributors
    /\ errors' = begin_team(Team).errors
    /\ pc' = begin_team(Team).pc
    /\ UNCHANGED <<envVars, tableVars, unitVars, teams, master_repo, suite_ops, idx, exc, cwd, fs, reports>>

\* the handler of CloneRepoError leaving past the removal of the directory
after_clone_skips_rmtree(cloned) ==
    IF cloned
    THEN [contributors |-> Unset, errors |-> MsgNoErrors, pc |-> "checkout"]
    ELSE [contributors |-> None, errors |-> MsgCloneFailed \o CloneErrorText, pc |-> "jira"]

\* the try statement without the call of checkout_last_valid_commit
after_clone_skips_checkout(cloned) ==
    IF cloned
    THEN [contributors |-> Unset, errors |-> MsgNoErrors, pc |-> "commit_hist"]
    ELSE [contributors |-> None, errors |-> MsgCloneFailed \o CloneErrorText, pc |-> "rmtree"]

\* evaluate_team, lines 261-267: where the try statement goes after clone_repo
after_clone(cloned) ==
    IF cloned
    THEN [contributors |-> Unset, errors |-> MsgNoErrors, pc |-> "checkout"]
    ELSE [contributors |-> None, errors |-> MsgCloneFailed \o CloneErrorText, pc |-> "rmtree"]

\* evaluate_team, line 262 with the handler of lines 265-267: clone_repo, lines 62-73
CloneRepo ==
    /\ pc = "clone"
    /\ \E cloned \in CloneAnswers(fs[repo_dir]), sub \in ClonedSubtrees :
        /\ fs' = [fs EXCEPT ![repo_dir] = clone_repo(@, cloned, TeamTree(sub))]
        /\ cwd' = clone_cwd(cwd, repo_dir, cloned)
        /\ log' = Append(log, [op |-> "clone_repo", ok |-> cloned])
        /\ contributors' = after_clone(cloned).contributors
        /\ errors' = after_clone(cloned).errors
        /\ pc' = after_clone(cloned).pc
    /\ UNCHANGED <<envVars, tableVars, unitVars, teams, master_repo, suite_ops, idx, exc, reports,
                   benchmark_results, jira_eval_results, game>>

\* how the git commands of checkout_last_valid_commit can end: "ValueError" is git log
\* printing nothing (no commit before the deadline), so that split(';') gives one part
CheckoutAnswers == {"ok", "CalledProcessError", "ValueError"}

\* checkout_last_valid_commit, lines 76-99: the working directory afterwards
checkout_cwd(wd, dir, answer) == IF answer = "ok" THEN wd ELSE dir

\* evaluate_team, line 264
CheckoutLastValidCommit ==
    /\ pc = "checkout"
    /\ \E answer \in CheckoutAnswers :
        /\ cwd' = checkout_cwd(cwd, repo_dir, answer)
        /\ log' = Append(log, [op |-> "checkout_last_valid_commit", ok |-> answer = "ok"])
        /\ IF answer = "ok"
           THEN fs' = [fs EXCEPT ![repo_dir].rewound = TRUE] /\ pc' = "commit_hist" /\ exc' = exc
           ELSE fs' = fs /\ Raise(answer)
    /\ UNCHANGED <<envVars, tableVars, teamVars, unitVars, teams, master_repo, suite_ops, idx, reports>>

\* evaluate_commit_hist, lines 102-119: the working directory afterwards
commit_hist_cwd(wd, dir, ok) == IF ok THEN wd ELSE dir

\* evaluate_team, lines 269-271
EvaluateCommitHist ==
    /\ pc = "commit_hist"
    /\ \E ok \in BOOLEAN, eval_results \in world.hists :
        /\ cwd' = commit_hist_cwd(cwd, repo_dir, ok)
        /\ log' = Append(log, [op |-> "evaluate_commit_hist", ok |-> ok, rewound |-> fs[repo_dir].rewound])
        /\ IF ok
           THEN /\ contributors' = Join(remove_lecturer_contributions(eval_results))
                /\ pc' = "overlay"
                /\ exc' = exc
           ELSE contributors' = contributors /\ Raise("CalledProcessError")
    /\ UNCHANGED <<envVars, tableVars, unitVars, teams, master_repo, suite_ops, idx, fs, reports,
                   errors, benchmark_results, jira_eval_results, game>>

\* run_all_benchmarks, lines 230-235
OverlaySuite ==
    /\ pc = "overlay"
    /\ fs' = [fs EXCEPT ![repo_dir] = overlay(@, fs[master_repo]), ![master_repo] = overlay_source(@)]
    /\ benchmark_results' = EmptyMap
    /\ game' = 1
    /\ log' = Append(log, [op |-> "overlay", rewound |-> fs[repo_dir].rewound])
    /\ pc' = "run_benchmark"
    /\ UNCHANGED <<envVars, tableVars, unitVars, teams, master_repo, suite_ops, idx, exc, cwd, reports,
                   contributors, errors, jira_eval_results>>

\* run_benchmark, lines 183-200: the working directory afterwards (restored on both paths)
run_benchmark_cwd(wd, dir, r) == wd

\* what the child process, which runs the team's code inside repo_dir, can leave there
AfterRun(tree) == {tree, [tree EXCEPT !.benchmark = [exists |-> TRUE, files |-> [f \in FileNames |-> "team"]]]}

\* the loop over the games left after its first turn
after_game_returns(g) == "rmtree"

\* where run_all_benchmarks goes after the game at position g
after_game(g) == IF g = Len(Games) THEN "rmtree" ELSE "run_benchmark"

\* run_all_benchmarks, lines 236-241: one turn of the loop over the games
RunBenchmark ==
    /\ pc = "run_benchmark"
    /\ \E kind \in world.runs, left \in AfterRun(fs[repo_dir]) :
        /\ benchmark_results' = Put(benchmark_results, Games[game], Outcome[kind])
        /\ cwd' = run_benchmark_cwd(cwd, repo_dir, Run(kind))
        /\ log' = Append(log, [op |-> "run_benchmark", game |-> Games[game], kind |-> kind,
                               rewound |-> fs[repo_dir].rewound, harness |-> fs[repo_dir].benchmark])
        /\ fs' = [fs EXCEPT ![repo_dir] = left]
    /\ pc' = after_game(game)
    /\ game' = game + 1
    /\ UNCHANGED <<envVars, tableVars, unitVars, teams, master_repo, suite_ops, idx, exc, reports,
                   contributors, errors, jira_eval_results>>

\* evaluate_team, line 273
RemoveRepoDir ==
    /\ pc = "rmtree"
    /\ fs' = [fs EXCEPT ![repo_dir] = NoDir]
    /\ log' = Append(log, [op |-> "rmtree"])
    /\ pc' = "jira"
    /\ UNCHANGED <<envVars, tableVars, teamVars, unitVars, teams, master_repo, suite_ops, idx, exc, cwd, reports>>

\* evaluate_team, lines 274-281
EvaluateJiraIssues ==
    /\ pc = "jira"
    /\ IF Team.jira_board = None
       THEN jira_eval_results' = None /\ log' = log
       ELSE \E answer \in AnswersIn(creds, world.answers), issues \in IssueTallies :
                /\ jira_eval_results' = jira_summary(evaluate_jira_issues(answer, issues))
                /\ log' = Append(log, [op |-> "evaluate_jira_issues", answer |-> answer])
    /\ pc' = "return"
    /\ UNCHANGED <<envVars, tableVars, unitVars, teams, master_repo, suite_ops, idx, exc, cwd, fs, reports,
                   contributors, errors, benchmark_results, game>>

\* evaluate_team, lines 282-287
TeamResult ==
    [git_contributors |-> contributors, github_errors |-> errors,
     completed_jira_issues |-> jira_eval_results, benchmark_results |-> benchmark_results]

\* the placeholder written for a game that has no test results, too
Column_dash_without_tests(team_result, g) ==
    IF g \in DOMAIN team_result.benchmark_results /\ team_result.benchmark_results[g].test_results # <<>>
    THEN team_result.benchmark_results[g].overall_results ELSE "-"

\* evaluate_teams, lines 306-313: one game's column
Column(team_result, g) ==
    IF g \in DOMAIN team_result.benchmark_results
    THEN team_result.benchmark_results[g].overall_results ELSE "-"

\* evaluate_teams, lines 298-314
MainRow(team, team_result) ==
    [team_id |-> team.nr, team_name |-> team.name, repository |-> team.repository,
     contributors |-> team_result.git_contributors, github_errors |-> team_result.github_errors,
     jira_board |-> team.jira_board, completed_jira_issues |-> team_result.completed_jira_issues,
     hangman_benchmark |-> Column(team_result, "hangman"),
     battleship_benchmark |-> Column(team_result, "battleship"),
     uno_benchmark |-> Column(team_result, "uno"),
     dog_benchmark |-> Column(team_result, "dog")]

\* evaluate_teams, lines 315-328: the per-test rows of one game, none or one
TestRows(team, team_result, g) ==
    IF g \in DOMAIN team_result.benchmark_results /\ Len(team_result.benchmark_results[g].test_results) > 0
    THEN LET tests == team_result.benchmark_results[g].test_results
         IN  <<[team_id |-> team.nr, team_name |-> team.name,
                tests |-> [n \in 1..Len(tests) |->
                             [test |-> ToString(tests[n].test_nr) \o ": " \o tests[n].test_name,
                              value |-> IF tests[n].passed THEN 1 ELSE 0]]]>>
    ELSE <<>>

\* evaluate_team returns its TeamResult; evaluate_teams, lines 298-328, appends the rows
EvaluateTeamReturn ==
    /\ pc = "return"
    /\ main_table' = Append(main_table, MainRow(Team, TeamResult))
    /\ uno_table' = uno_table \o TestRows(Team, TeamResult, "uno")
    /\ dog_table' = dog_table \o TestRows(Team, TeamResult, "dog")
    /\ idx' = idx + 1
    /\ pc' = "loop"
    /\ UNCHANGED <<envVars, teamVars, unitVars, teams, master_repo, suite_ops, exc, cwd, fs, log, reports>>

\* evaluate_teams, lines 329-330
EvaluateTeamsReturn ==
    /\ pc = "loop"
    /\ idx > Len(TeamsSlice(teams))
    /\ fs' = [fs EXCEPT ![master_repo] = NoDir]
    /\ suite_ops' = Append(suite_ops, "rmtree")
    /\ pc' = "to_csv"
    /\ UNCHANGED <<envVars, tableVars, teamVars, unitVars, teams, master_repo, idx, exc, cwd, log, reports>>

\* __main__, lines 344-346
WriteReports ==
    /\ pc = "to_csv"
    /\ reports' = {"evaluation_results.csv", "uno_test_overview.csv", "dog_test_overview.csv"}
    /\ pc' = "done"
    /\ UNCHANGED <<envVars, tableVars, teamVars, unitVars, teams, master_repo, suite_ops, idx, exc, cwd, fs, log>>

Next ==
    \/ Main
    \/ ReadTeamSpreadsheet
    \/ PrepareBenchmarkEvaluation
    \/ EvaluateTeamBegin
    \/ CloneRepo
    \/ CheckoutLastValidCommit
    \/ EvaluateCommitHist
    \/ OverlaySuite
    \/ RunBenchmark
    \/ RemoveRepoDir
    \/ EvaluateJiraIssues
    \/ EvaluateTeamReturn
    \/ EvaluateTeamsReturn
    \/ WriteReports

Spec == Init /\ [][Next]_vars

-----------------------------------------------------------------------------
(* run_benchmark on its own: every completed subprocess built from up to MaxLines *)
(* printed lines and a trailing block                                            *)

\* the variables of the batch, at rest
BatchAtRest ==
    /\ url = None /\ tempdir = None /\ creds = FALSE /\ world = FullWorld /\ sheet = <<>>
    /\ teams = <<>> /\ master_repo = None /\ suite_ops = <<>>
    /\ main_table = <<>> /\ uno_table = <<>> /\ dog_table = <<>>
    /\ idx = 1 /\ pc = "unit" /\ exc = None /\ cwd = StartDir
    /\ fs = [d \in DirNames |-> NoDir]
    /\ contributors = Unset /\ errors = Unset /\ benchmark_results = EmptyMap
    /\ jira_eval_results = Unset /\ game = 1 /\ log = <<>> /\ reports = {}

batchVars == <<envVars, tableVars, teamVars, teams, master_repo, suite_ops, idx, pc, exc, cwd, fs, log, reports>>

InitParse ==
    /\ BatchAtRest
    /\ \E ls \in SeqsUpTo(Lines, MaxLines), t \in Trailers, rc \in {0, 1}, to \in BOOLEAN :
        proc = CompletedProcess(ls, t, rc, to)
    /\ parsed = NotRun
    /\ tally_in = <<>> /\ tally = <<>> /\ applied = 0 /\ team_dir = NoDir /\ suite_dir = NoDir

\* run_benchmark, lines 197-211, for the completed subprocess proc
RunBenchmarkParse ==
    /\ ~parsed.done
    /\ parsed' = [done |-> TRUE, result |-> run_benchmark(proc)]
    /\ UNCHANGED <<batchVars, proc, tally_in, tally, applied, team_dir, suite_dir>>

NextParse == RunBenchmarkParse

SpecParse == InitParse /\ [][NextParse]_vars

-----------------------------------------------------------------------------
(* The overlay of run_all_benchmarks on its own: one team whose clone holds any  *)
(* benchmark subtree, and a canonical suite holding any benchmark directory      *)

OnlyTeam == [id |-> Uuid(1), nr |-> "1", name |-> "Alpha", repository |-> RepoUrl, jira_board |-> None]

InitOverlay ==
    /\ url = "https://docs.google.com/spreadsheets/d/1/edit?gid=0" /\ tempdir = "/tmp/eval"
    /\ creds = FALSE /\ world = FullWorld
    /\ sheet = <<[nr |-> "1", name |-> "Alpha", repository |-> RepoUrl, jira_board |-> NaN]>>
    /\ teams = <<OnlyTeam>> /\ master_repo = MasterRepo
    /\ suite_ops = <<"clone_repo", "pip_install">>
    /\ main_table = <<>> /\ uno_table = <<>> /\ dog_table = <<>>
    /\ idx = 1 /\ pc = "overlay" /\ exc = None /\ cwd = StartDir
    /\ team_dir \in {[TeamTree(sub) EXCEPT !.rewound = TRUE] : sub \in Subtrees}
    /\ suite_dir \in {[SuiteTree EXCEPT !.benchmark = sub] : sub \in Subtrees \ {NoSubtree}}
    /\ fs = [d \in DirNames |-> IF d = MasterRepo THEN suite_dir ELSE IF d = Uuid(1) THEN team_dir ELSE NoDir]
    /\ contributors \in {Join(remove_lecturer_contributions(h)) : h \in CommitHists}
    /\ errors = MsgNoErrors /\ benchmark_results = EmptyMap
    /\ jira_eval_results = Unset /\ game = 1 /\ reports = {}
    /\ log = <<>>
    /\ proc = NoProc /\ parsed = NotRun /\ tally_in = <<>> /\ tally = <<>> /\ applied = 0

NextOverlay == OverlaySuite

SpecOverlay == InitOverlay /\ [][NextOverlay]_vars

-----------------------------------------------------------------------------
(* remove_lecturer_contributions on its own: every dict of up to MaxAuthors authors *)

Authors == {"alice", "Samhab", "Oliver Staubli", "samhab"}
Counts == {1, 5}

MaxAuthors == 3
MaxApplied == 2

\* the dicts: entries in insertion order, no key twice
Tallies ==
    {d \in SeqsUpTo([user : Authors, count : Counts], MaxAuthors) :
        \A i, j \in 1..Len(d) : i # j => d[i].user # d[j].user}

InitFilter ==
    /\ BatchAtRest
    /\ proc = NoProc /\ parsed = NotRun /\ team_dir = NoDir /\ suite_dir = NoDir
    /\ tally_in \in Tallies
    /\ tally = tally_in
    /\ applied = 0

\* one call of remove_lecturer_contributions on the dict, which it changes in place
RemoveLecturerContributions ==
    /\ applied < MaxApplied
    /\ tally' = remove_lecturer_contributions(tally)
    /\ applied' = applied + 1
    /\ UNCHANGED <<batchVars, proc, parsed, tally_in, team_dir, suite_dir>>

NextFilter == RemoveLecturerContributions

SpecFilter == InitFilter /\ [][NextFilter]_vars

-----------------------------------------------------------------------------
(* Claims *)

Last(q) == q[Len(q)]
Ops(q) == {q[n].op : n \in 1..Len(q)}

\* the evaluation of the n-th team of the loop has ended, by return or by an exception
Ended(n) ==
    \/ n < idx
    \/ n = idx /\ pc = "return"
    \/ n = idx /\ pc = "aborted" /\ log # <<>>

\* C1: when evaluate_teams has returned, the main table has one row per Team record
\* that read_team_spreadsheet returned
C1_OneRowPerTeam ==
    pc \in {"to_csv", "done"} => Len(main_table) = Len(teams)

\* C2: no failure inside evaluate_team (clone, rewind, tally, game, tracker) leaves
\* evaluate_team as an exception: the process never ends during a team's evaluation
C2_EvaluateTeamAlwaysReturns ==
    pc = "aborted" => log = <<>>

\* C3: once a team's evaluation has ended, by return or by a failure, its directory
\* temp_dir/team.id does not exist
C3_TeamDirRemoved ==
    \A n \in 1..Len(TeamsSlice(teams)) :
        (Ended(n) /\ TeamsSlice(teams)[n].repository # None) => ~fs[TeamsSlice(teams)[n].id].exists

\* C4: every directory-scoped operation leaves the current working directory as it found
\* it, whether it returns or raises
C4_CwdRestored == [][cwd' = cwd]_vars

GameRuns ==
    LET isRun(e) == e.op = "run_benchmark"
    IN  SelectSeq(log, isRun)

\* what run_all_benchmarks has to record for a run of each kind
ExpectedOutcome(kind) ==
    CASE kind = "timeout" -> [overall_results |-> "Timeout", test_results |-> <<>>]
      [] kind = "crashed" ->
            [overall_results |-> "Benchmark evaluation failed with message: Traceback", test_results |-> <<>>]
      [] kind = "malformed" ->
            [overall_results |-> "No proper Benchmark output (missing 'Tests/Mark' section)", test_results |-> <<>>]
      [] kind = "scored" ->
            [overall_results |-> "Tests: 7/10 valid\nMark:  14/20 points",
             test_results |-> <<[test_nr |-> 1, test_name |-> "Deal cards", passed |-> TRUE],
                                [test_nr |-> 120, test_name |-> "Deal cards", passed |-> FALSE]>>]

\* run_all_benchmarks has returned to evaluate_team
BenchmarksReturned == errors = MsgNoErrors /\ pc \in {"rmtree", "jira", "return"}

\* C5: run_all_benchmarks runs hangman, battleship, uno, dog in that order; the mapping
\* holds exactly the games run so far and, once it has returned, exactly the four; each
\* game's outcome is the one of its own run (the error text and no tests for a timeout,
\* a crash or a malformed output), whatever the other games did
C5_FourGamesIsolated ==
    /\ Len(GameRuns) <= 4
    /\ \A n \in 1..Len(GameRuns) : GameRuns[n].game = <<"hangman", "battleship", "uno", "dog">>[n]
    /\ DOMAIN benchmark_results = {GameRuns[n].game : n \in 1..Len(GameRuns)}
    /\ \A n \in 1..Len(GameRuns) : benchmark_results[GameRuns[n].game] = ExpectedOutcome(GameRuns[n].kind)
    /\ BenchmarksReturned => DOMAIN benchmark_results = {"hangman", "battleship", "uno", "dog"}

C5_Witness ==
    /\ BenchmarksReturned
    /\ [n \in 1..Len(GameRuns) |-> GameRuns[n].kind] = <<"timeout", "scored", "crashed", "malformed">>
    /\ benchmark_results["battleship"].overall_results = "Tests: 7/10 valid\nMark:  14/20 points"

\* C6: for a team without a repository evaluate_team clones, rewinds, tallies, benchmarks
\* and removes nothing; contributors are absent, the staging message is not "no errors",
\* the benchmark mapping is empty, and the tracker is queried exactly when there is a board
C6_NoRepositoryShortCircuits ==
    (pc \in {"jira", "return"} /\ Team.repository = None) =>
        /\ Ops(log) \subseteq {"evaluate_jira_issues"}
        /\ Len(log) <= 1
        /\ ~fs[repo_dir].exists
        /\ TeamResult.git_contributors = None
        /\ TeamResult.github_errors # "no errors"
        /\ TeamResult.benchmark_results = EmptyMap
        /\ pc = "return" => (("evaluate_jira_issues" \in Ops(log)) <=> (Team.jira_board # None))

C6_Witness ==
    /\ pc = "return"
    /\ Team.repository = None
    /\ Team.jira_board # None
    /\ Ops(log) = {"evaluate_jira_issues"}

CloneFailed == log # <<>> /\ log[1].op = "clone_repo" /\ ~log[1].ok

\* C7: when the clone fails with CloneRepoError, the staging message is "Error when
\* cloning repo: " followed by the error text, contributors are absent, the benchmark
\* mapping is empty, nothing is rewound, tallied or benchmarked, the team directory is
\* removed next, and the tracker step follows
C7_CloneFailureHandled ==
    CloneFailed =>
        /\ pc \in {"rmtree", "jira", "return", "loop", "to_csv", "done"}
        /\ errors = "Error when cloning repo: " \o CloneErrorText
        /\ contributors = None
        /\ benchmark_results = EmptyMap
        /\ Ops(log) \subseteq {"clone_repo", "rmtree", "evaluate_jira_issues"}
        /\ pc = "rmtree" => Len(log) = 1 /\ fs[repo_dir].exists
        /\ pc # "rmtree" => Len(log) >= 2 /\ log[2].op = "rmtree"
        /\ pc \in {"jira", "return"} => ~fs[repo_dir].exists
        /\ pc = "jira" => Len(log) = 2
        /\ pc = "return" => (("evaluate_jira_issues" \in Ops(log)) <=> (Team.jira_board # None))

C7_Witness ==
    /\ pc = "return"
    /\ CloneFailed
    /\ Team.jira_board # None
    /\ [n \in 1..Len(log) |-> log[n].op] = <<"clone_repo", "rmtree", "evaluate_jira_issues">>

\* the message of the JiraEvalError raised for each failing answer of the tracker
TrackerMessage(answer) ==
    CASE answer = "KeyError" -> "Please provide env variables 'JIRA_EMAIL' and 'JIRA_API_TOKEN'"
      [] answer = "InvalidURL" -> "Invalid JIRA board url"
      [] answer = "JIRAError_auth" -> "JIRA authentication failed: HTTP 401"
      [] answer = "JIRAError_search" -> "Jira Query issue: HTTP 401"

TrackerFailed ==
    /\ log # <<>>
    /\ Last(log).op = "evaluate_jira_issues"
    /\ Last(log).answer \in {"KeyError", "InvalidURL", "JIRAError_auth", "JIRAError_search"}

\* C8: a tracker failure (credentials missing, board URL malformed, credentials rejected,
\* search failed) makes the issue summary the error's message; evaluate_team returns, the
\* row with that summary is appended and the loop goes on
C8_TrackerFailureRecorded ==
    TrackerFailed =>
        /\ pc \in {"return", "loop", "to_csv", "done"}
        /\ jira_eval_results = TrackerMessage(Last(log).answer)
        /\ pc # "return" => /\ main_table # <<>>
                            /\ Last(main_table).completed_jira_issues = TrackerMessage(Last(log).answer)
                            /\ Len(main_table) = idx - 1

C8_Witness ==
    /\ TrackerFailed
    /\ Last(log).answer = "KeyError"
    /\ pc = "loop"
    /\ idx = 2
    /\ Len(TeamsSlice(teams)) = 2
    /\ Last(main_table).completed_jira_issues = MsgNoCredentials

\* C9: after the overlay the benchmark subtree of the team directory equals the one of
\* the canonical suite, whatever the team directory held before, and the suite is as before
C9_OverlayGivesCanonicalSubtree ==
    pc = "run_benchmark" =>
        /\ fs[repo_dir].benchmark = suite_dir.benchmark
        /\ fs[MasterRepo] = suite_dir

C9_Witness ==
    /\ pc = "run_benchmark"
    /\ team_dir.benchmark.exists
    /\ \E f \in FileNames : team_dir.benchmark.files[f] # Absent /\ suite_dir.benchmark.files[f] = Absent
    /\ \E f \in FileNames : team_dir.benchmark.files[f] = "team" /\ suite_dir.benchmark.files[f] = "canonical"
    /\ fs[repo_dir].benchmark = suite_dir.benchmark

\* a benchmark that ended with exit code 0 in time and printed the trailing block last
Successful == ~proc.timedOut /\ proc.returncode = 0 /\ proc.trailer = "block"

\* the outcomes of the lines that carry the reset code directly after the ordinal and a
\* point value of one or two digits
RECURSIVE ExpectedTests(_)
ExpectedTests(ls) ==
    IF ls = <<>> THEN <<>>
    ELSE (IF ls[1].form = "reset_after_ordinal" /\ ls[1].points < 100
          THEN <<[test_nr |-> ls[1].ordinal, test_name |-> ls[1].name, passed |-> ls[1].passed]>>
          ELSE <<>>) \o ExpectedTests(Tail(ls))

\* C10 as claimed: the output made of the line ESC[92mTest 001: Deal cards [2 points]ESC[0m
\* and the trailing block parses to the score text and the one outcome (1, "Deal cards", true)
C10_SampleLineYieldsOutcome ==
    (parsed.done /\ Successful /\ proc.lines = <<SampleLine>>) =>
        /\ ~parsed.result.raised
        /\ parsed.result.value.overall_results = "Tests: 7/10 valid\nMark:  14/20 points"
        /\ parsed.result.value.test_results = <<[test_nr |-> 1, test_name |-> "Deal cards", passed |-> TRUE]>>

\* C10 as amended: a successful output parses to the score text and to one outcome for
\* each line of the form color code, "Test", three-digit ordinal, reset code, colon, name,
\* bracketed points of one or two digits, in order, passed iff the color code is 92m; a
\* line with the reset code at its end instead, as in the sample, gives no outcome
C10_ResetAfterOrdinalLinesYieldOutcomes ==
    (parsed.done /\ Successful) =>
        /\ ~parsed.result.raised
        /\ parsed.result.value.overall_results = "Tests: 7/10 valid\nMark:  14/20 points"
        /\ parsed.result.value.test_results = ExpectedTests(proc.lines)

C10_Witness ==
    /\ parsed.done
    /\ Successful
    /\ proc.lines = <<SampleLine, [SampleLine EXCEPT !.form = "reset_after_ordinal"]>>
    /\ parsed.result.value.test_results = <<[test_nr |-> 1, test_name |-> "Deal cards", passed |-> TRUE]>>

\* exit code 0 in time, and the output does not end with the Tests line, the Mark line,
\* one blank line and the end of the stream
ExitZeroWithoutExactBlock == ~proc.timedOut /\ proc.returncode = 0 /\ proc.trailer # "block"

\* C11: when the subprocess exits with code 0 and its output does not end with the exact
\* trailing block, run_benchmark raises the malformed-output error, and the outcome
\* recorded for the game is that error text with no tests, whatever lines were printed
C11_MalformedOutputNoPartialResult ==
    (parsed.done /\ ExitZeroWithoutExactBlock) =>
        /\ parsed.result.raised
        /\ parsed.result.message = "No proper Benchmark output (missing 'Tests/Mark' section)"
        /\ game_outcome(parsed.result) =
              [overall_results |-> "No proper Benchmark output (missing 'Tests/Mark' section)",
               test_results |-> <<>>]

ConfigurationMissing == url = None \/ tempdir = None

\* C12: when SPREADSHEET_URL or TEMPDIR is missing, the process ends with the ValueError
\* of __main__ as its first step: the roster is not read, the suite is not cloned, no
\* directory is created, no team is evaluated and no report file is written
C12_ConfigurationErrorAbortsFirst ==
    ConfigurationMissing =>
        /\ pc \in {"main", "aborted"}
        /\ pc = "aborted" => exc = "ValueError"
        /\ teams = <<>>
        /\ master_repo = None /\ suite_ops = <<>>
        /\ \A d \in DirNames : ~fs[d].exists
        /\ idx = 1 /\ log = <<>> /\ main_table = <<>>
        /\ reports = {}

C12_Witness ==
    /\ pc = "aborted"
    /\ exc = "ValueError"
    /\ url # None
    /\ tempdir = None
    /\ Len(sheet) = 2

\* evaluate_team has been called for a team and has not returned
Evaluating ==
    pc \in {"clone", "checkout", "commit_hist", "overlay", "run_benchmark", "rmtree", "jira", "return"}

\* C13: the suite is cloned and its requirements installed once, before the loop over
\* the teams; from then until the loop has ended (and when a team's evaluation ends the
\* process) the suite directory exists as it was cloned; it is removed once, after the
\* loop's last team has been evaluated
C13_SuitePreparedOnceKeptRemovedLast ==
    /\ suite_ops \in {<<>>, <<"clone_repo">>, <<"clone_repo", "pip_install">>,
                      <<"clone_repo", "pip_install", "rmtree">>}
    /\ (Evaluating \/ pc = "loop" \/ (pc = "aborted" /\ log # <<>>)) =>
            /\ suite_ops = <<"clone_repo", "pip_install">>
            /\ master_repo = MasterRepo
            /\ fs[MasterRepo] = SuiteTree
    /\ main_table # <<>> => Len(suite_ops) >= 2
    /\ Len(suite_ops) = 3 =>
            /\ pc \in {"to_csv", "done"}
            /\ idx > Len(TeamsSlice(teams))
            /\ Len(main_table) = Len(TeamsSlice(teams))
            /\ ~fs[MasterRepo].exists

C13_Witness ==
    /\ pc = "to_csv"
    /\ suite_ops = <<"clone_repo", "pip_install", "rmtree">>
    /\ Len(main_table) = 2
    /\ \A n \in 1..2 : main_table[n].github_errors = "no errors"

Denylisted(user) == user \in {"Oliver Staubli", "samhab"}

\* the entries of d whose author is not denylisted, in their order
KeptEntries(d) ==
    LET keep(e) == ~Denylisted(e.user)
    IN  SelectSeq(d, keep)

\* C14: for every tally, filtering twice gives what filtering once gives; the filtered
\* tally holds no denylisted name and exactly the other entries, each with its count,
\* in their order; a tally without denylisted names comes back as it was
C14_FilterIdempotentAndExact ==
    /\ remove_lecturer_contributions(remove_lecturer_contributions(tally_in))
          = remove_lecturer_contributions(tally_in)
    /\ applied = 0 => tally = tally_in
    /\ applied >= 1 =>
          /\ \A n \in 1..Len(tally) : ~Denylisted(tally[n].user)
          /\ tally = KeptEntries(tally_in)
          /\ (\A n \in 1..Len(tally_in) : ~Denylisted(tally_in[n].user)) => tally = tally_in

C14_Witness ==
    /\ applied = 2
    /\ tally_in = <<[user |-> "samhab", count |-> 1], [user |-> "Samhab", count |-> 5],
                    [user |-> "Oliver Staubli", count |-> 1]>>
    /\ tally = <<[user |-> "Samhab", count |-> 5]>>

OpsOf(q) == [n \in 1..Len(q) |-> q[n].op]

\* the steps of one team's evaluation whose clone succeeds, in the order of evaluate_team
StepOrder ==
    <<"clone_repo", "checkout_last_valid_commit", "evaluate_commit_hist", "overlay",
      "run_benchmark", "run_benchmark", "run_benchmark", "run_benchmark",
      "rmtree", "evaluate_jira_issues">>

Cloned == log # <<>> /\ log[1].op = "clone_repo" /\ log[1].ok

\* C15: the tally, the overlay and every game run on a clone whose deadline rewind has
\* succeeded, never on one that was not rewound; the steps of a team whose clone succeeds
\* are, in this order, clone, rewind, tally with the staff filter, overlay, the four
\* games, the removal of the directory and the tracker query (when there is a board)
C15_RewindBeforeTallyAndGames ==
    /\ \A n \in 1..Len(log) :
          log[n].op \in {"evaluate_commit_hist", "overlay", "run_benchmark"} =>
              /\ log[n].rewound
              /\ n > 2
              /\ log[2].op = "checkout_last_valid_commit" /\ log[2].ok
    /\ Cloned =>
          /\ Len(log) <= Len(StepOrder)
          /\ OpsOf(log) = SubSeq(StepOrder, 1, Len(log))
          /\ pc = "overlay" => contributors \in {Join(KeptEntries(h)) : h \in world.hists}
          /\ pc = "return" => /\ Len(log) >= 9
                              /\ Len(log) = 10 <=> Team.jira_board # None

C15_Witness ==
    /\ pc = "return"
    /\ OpsOf(log) = StepOrder
    /\ \A n \in 3..8 : log[n].rewound
    /\ contributors = "alice (5)"

\* C16: at the launch of each of the four games the benchmark subtree of the team
\* directory equals the canonical one, also after an earlier game's child process has
\* run the team's code inside the team directory
C16_HarnessCanonicalAtEachGame ==
    \A n \in 1..Len(log) :
        log[n].op = "run_benchmark" => log[n].harness = SuiteTree.benchmark

\* C17: run_benchmark classifies a run in this order: a timeout gives the timeout error;
\* else an exit code other than 0 gives the crash error with the captured standard error,
\* also when the output ends with the trailing block; else an output without the block
\* gives the malformed-output error; a result is returned only for exit code 0 in time
\* with the block in the output
C17_ClassifiedByPrecedence ==
    parsed.done =>
        /\ proc.timedOut =>
              parsed.result.raised /\ parsed.result.message = "Timeout"
        /\ (~proc.timedOut /\ proc.returncode # 0) =>
              /\ parsed.result.raised
              /\ parsed.result.message = "Benchmark evaluation failed with message: " \o proc.stderr
        /\ (~proc.timedOut /\ proc.returncode = 0 /\ proc.trailer \in {"missing", "no_blank_line"}) =>
              /\ parsed.result.raised
              /\ parsed.result.message = "No proper Benchmark output (missing 'Tests/Mark' section)"
        /\ (~proc.timedOut /\ proc.returncode = 0 /\ proc.trailer = "block") =>
              /\ ~parsed.result.raised
              /\ parsed.result.value.overall_results = "Tests: 7/10 valid\nMark:  14/20 points"
        /\ ~parsed.result.raised =>
              ~proc.timedOut /\ proc.returncode = 0 /\ proc.trailer \in {"block", "block_and_newline"}

C17_Witness ==
    /\ parsed.done
    /\ ~proc.timedOut
    /\ proc.returncode = 1
    /\ proc.trailer = "block"
    /\ proc.lines = <<PassLine>>
    /\ parsed.result.raised
    /\ parsed.result.message = "Benchmark evaluation failed with message: Traceback"

GameColumns(row) ==
    <<row.hangman_benchmark, row.battleship_benchmark, row.uno_benchmark, row.dog_benchmark>>

\* the score text and the three error texts a game can be recorded with
OutcomeTexts == {ExpectedOutcome(kind).overall_results : kind \in RunKinds}

\* C18: in every row of the main table the four game columns are all "-" or none is;
\* they are all "-" exactly when the team has no repository or its clone failed;
\* otherwise each column is the score text or the error text of that game's own run
C18_GameColumnsAllOrNone ==
    /\ \A r \in 1..Len(main_table) :
          LET row == main_table[r]
              cols == GameColumns(row)
              dashes == {n \in 1..4 : cols[n] = "-"}
          IN  /\ dashes \in {{}, 1..4}
              /\ dashes = 1..4 <=>
                    \/ row.repository = None
                    \/ row.github_errors = "Error when cloning repo: " \o CloneErrorText
              /\ dashes = {} => \A n \in 1..4 : cols[n] \in OutcomeTexts
    /\ (pc \in {"loop", "to_csv", "done"} /\ main_table # <<>> /\ GameRuns # <<>>) =>
          /\ Len(GameRuns) = 4
          /\ \A n \in 1..4 :
                GameColumns(Last(main_table))[n] = ExpectedOutcome(GameRuns[n].kind).overall_results

C18_Witness ==
    /\ pc = "loop"
    /\ main_table # <<>>
    /\ GameColumns(Last(main_table)) =
          <<"Timeout", "Tests: 7/10 valid\nMark:  14/20 points",
            "No proper Benchmark output (missing 'Tests/Mark' section)",
            "Benchmark evaluation failed with message: Traceback">>

\* C19: each team is staged into the directory named by its token: the directories of
\* two teams differ, also when their roster number and name are equal; none is the
\* directory of the suite; the directory does not exist when the clone starts; and while
\* a team is evaluated no other team's directory exists
C19_TeamDirsKeyedByToken ==
    /\ \A i \in 1..Len(teams) :
          /\ repo_dir_of(teams[i]) = teams[i].id
          /\ repo_dir_of(teams[i]) # MasterRepo
          /\ \A j \in 1..Len(teams) : i # j => repo_dir_of(teams[i]) # repo_dir_of(teams[j])
    /\ pc = "clone" => ~fs[repo_dir].exists
    /\ Evaluating =>
          \A d \in DirNames \ {MasterRepo, Team.id} : ~fs[d].exists
    /\ (Cloned /\ pc \in {"checkout", "commit_hist", "overlay", "run_benchmark"}) =>
          fs[Team.id].cloned /\ fs[MasterRepo] = SuiteTree

C19_Witness ==
    /\ pc = "checkout"
    /\ idx = 2
    /\ teams[1].nr = teams[2].nr
    /\ teams[1].name = teams[2].name
    /\ main_table[1].github_errors = "no errors"
    /\ fs[teams[2].id].cloned
    /\ ~fs[teams[1].id].exists

\* C20: in every TeamResult that evaluate_team returns, the staging message is "no errors"
\* exactly when the contribution summary is present, and exactly when the benchmark
\* mapping holds the four games; otherwise the summary is absent and the mapping is empty
C20_TeamResultConsistent ==
    pc = "return" =>
        /\ TeamResult.git_contributors # Unset
        /\ TeamResult.github_errors = "no errors" <=> TeamResult.git_contributors # None
        /\ TeamResult.github_errors = "no errors" <=>
              DOMAIN TeamResult.benchmark_results = {"hangman", "battleship", "uno", "dog"}
        /\ TeamResult.github_errors # "no errors" =>
              /\ TeamResult.git_contributors = None
              /\ TeamResult.benchmark_results = EmptyMap

C20_Witness ==
    /\ pc = "return"
    /\ TeamResult.github_errors = "no errors"
    /\ TeamResult.git_contributors = ""
    /\ DOMAIN TeamResult.benchmark_results = {"hangman", "battleship", "uno", "dog"}
    /\ TeamResult.benchmark_results["dog"].overall_results = "Timeout"

====
